---- MODULE Spec2Model ----
(***************************************************************************)
(* Model of rebound.c: rebound_init, rebound_step and rebound_integrate.  *)
(* Times, step sizes and coordinates are integers, so that every          *)
(* comparison of the source is exact.  The collaborators whose code is    *)
(* not part of rebound.c (integrator, boundaries, gravity, tree,          *)
(* collisions, the user hooks) are modelled by their call contracts.      *)
(***************************************************************************)
EXTENDS Integers, Sequences, FiniteSets, TLC

VARIABLES
    pc,                 \* position of the caller / of rebound_integrate / of rebound_step
    t,                  \* r->t
    dt,                 \* r->dt
    N,                  \* r->N
    N_megno,            \* r->N_megno
    particles,          \* r->particles, the first N entries
    exit_simulation,    \* r->exit_simulation
    exact_finish_time,  \* r->exact_finish_time
    integrator,         \* r->integrator
    hooks,              \* which of the function pointers of r are not NULL
    ri_whfast,          \* r->ri_whfast: safe_mode, is_synchronized, recalculate_jacobi_this_timestep
    build,              \* the preprocessor configuration: TREE, MPI, GRAVITY_TREE, COLLISIONS
    tmax, maxR, minD,   \* the arguments of rebound_integrate
    dt_last_done,       \* local of rebound_integrate
    last_step,          \* local of rebound_integrate
    ret_value,          \* local of rebound_integrate
    dtsign,             \* local of rebound_integrate
    result,             \* the value rebound_integrate returned (NoResult before it returns)
    phases,             \* the collaborator calls of the current rebound_step, in call order
    entry,              \* t, dt, N and exit_simulation when rebound_integrate was entered
    steps,              \* number of rebound_step calls of this run
    config,             \* the fields of r that rebound_step and rebound_integrate never touch
    obs,                \* what the run has done so far: calls made and what they saw
    mirror              \* the same call on the sign-mirrored problem (t, dt, tmax negated),
                        \* run in step with this one

vars == << pc, t, dt, N, N_megno, particles, exit_simulation, exact_finish_time,
           integrator, hooks, ri_whfast, build, tmax, maxR, minD, dt_last_done,
           last_step, ret_value, dtsign, result, phases, entry, steps, config, obs,
           mirror >>

rvars == << t, dt, N, N_megno, particles, exit_simulation, exact_finish_time,
            integrator, hooks, ri_whfast, config >>

locals == << tmax, maxR, minD, dt_last_done, last_step, ret_value, dtsign >>

----------------------------------------------------------------------------
(* Bounds of the model *)

MaxT == 3          \* tmax ranges over -MaxT .. MaxT
MaxDt == 2         \* the caller's dt ranges over -MaxDt .. MaxDt
\* Cap on the rebound_step calls of one run: a run with dt # 0 needs at most
\* MaxT of them, so only the endless loop of dt = 0 reaches the cap.
MaxSteps == MaxT + 1

NoResult == 0 - 1

----------------------------------------------------------------------------
(* Particles *)

Particle(x, y, z, vx) == [x |-> x, y |-> y, z |-> z, vx |-> vx]

\* The particle sets the caller may add before integrating; megno is the
\* number of variational particles, stored as the suffix.
ParticleSetups ==
    { [parts |-> << >>, megno |-> 0],
      [parts |-> << Particle(0, 0, 0, 0), Particle(3, 0, 0, 0) >>, megno |-> 0],
      [parts |-> << Particle(3, 0, 0, 0), Particle(3, 1, 0, 0) >>, megno |-> 0],
      [parts |-> << Particle(0, 0, 0, 0), Particle(2, 0, 0, 0) >>, megno |-> 0],
      [parts |-> << Particle(0, 0, 0, 0), Particle(1, 0, 0, 1) >>, megno |-> 0],
      [parts |-> << Particle(0, 0, 0, 0), Particle(3, 0, 0, 0) >>, megno |-> 1] }

\* The thresholds the caller may pass as maxR and minD (0 disables the check).
Thresholds == {0, 2}

\* The preprocessor configurations.
Builds ==
    { [TREE |-> FALSE, MPI |-> FALSE, GRAVITY_TREE |-> FALSE, COLLISIONS |-> FALSE],
      [TREE |-> TRUE,  MPI |-> TRUE,  GRAVITY_TREE |-> TRUE,  COLLISIONS |-> TRUE] }

\* Integrator and WHFast safe_mode as the caller may select them.
IntegratorSetups ==
    { [integrator |-> "IAS15",  safe_mode |-> 1],
      [integrator |-> "WHFAST", safe_mode |-> 1],
      [integrator |-> "WHFAST", safe_mode |-> 0] }

\* The hooks the caller may register: none, one of them, or all three.
HookSets ==
    { hk \in [additional_forces : BOOLEAN, post_timestep : BOOLEAN,
              post_timestep_modifications : BOOLEAN] :
        Cardinality({ h \in {"additional_forces", "post_timestep",
                             "post_timestep_modifications"} : hk[h] }) \in {0, 1, 3} }

----------------------------------------------------------------------------
\* Nothing observed yet.
NoObservations ==
    [hook_calls |-> 0,           \* calls of the post_timestep hook
     hook_dt |-> 0,              \* r->dt as the last post_timestep call saw it
     monitors |-> 0,             \* passes through the monitoring block (lines 253-289)
     truncated_steps |-> 0,      \* rebound_step calls made with a truncated r->dt
     seen_escape |-> FALSE,      \* some pass found a monitored particle beyond maxR
     seen_encounter |-> FALSE,   \* some pass found a monitored pair closer than minD
     mod_sync |-> 0 - 1]         \* is_synchronized as post_timestep_modifications saw it
                                 \* in the current step (-1: not called)

\* No mirrored call yet.
NoMirror ==
    [t |-> 0, dt |-> 0, tmax |-> 0, dtsign |-> 1, dt_last_done |-> 0, last_step |-> 0,
     ret_value |-> 0, particles |-> << >>, result |-> NoResult,
     agree |-> TRUE,     \* both runs took the same branch at every test so far
     alike |-> TRUE]     \* the monitoring block gave both runs the same code so far

\* Mutant of Init: the zero-filled allocation of line 141 without the
\* assignments of lines 142-187.
Init_ZeroFilled ==
    /\ pc = "init"
    /\ t = 0
    /\ dt = 0
    /\ N = 0
    /\ N_megno = 0
    /\ particles = << >>
    /\ exit_simulation = 0
    /\ exact_finish_time = 0
    /\ integrator = "IAS15"
    /\ hooks = [additional_forces |-> FALSE, post_timestep |-> FALSE,
                post_timestep_modifications |-> FALSE]
    /\ ri_whfast = [safe_mode |-> 0, is_synchronized |-> 0,
                    recalculate_jacobi_this_timestep |-> 0]
    /\ build \in Builds
    /\ tmax = 0 /\ maxR = 0 /\ minD = 0
    /\ dt_last_done = 0 /\ last_step = 0 /\ ret_value = 0 /\ dtsign = 1
    /\ result = NoResult
    /\ phases = << >>
    /\ entry = [t |-> 0, dt |-> 0, N |-> 0, exit_simulation |-> 0]
    /\ steps = 0
    /\ config = [G |-> 0, softening |-> 0, boxsize |-> 0, boxsize_x |-> 0,
                 boxsize_y |-> 0, boxsize_z |-> 0, boxsize_max |-> 0,
                 root_nx |-> 0, root_ny |-> 0, root_nz |-> 0, root_n |-> 0,
                 Nmax |-> 0, N_active |-> 0, force_is_velocitydependent |-> 0,
                 finished |-> FALSE]
    /\ obs = NoObservations
    /\ mirror = NoMirror

(* rebound_init.  The unit of time of the model is the default timestep of  *)
(* rebound_init (0.001), so r->dt = 0.001 is dt = 1.                        *)

Init ==
    /\ pc = "init"
    /\ t = 0
    /\ dt = 1
    /\ N = 0
    /\ N_megno = 0
    /\ particles = << >>
    /\ exit_simulation = 0
    /\ exact_finish_time = 0
    /\ integrator = "IAS15"
    /\ hooks = [additional_forces |-> FALSE, post_timestep |-> FALSE,
                post_timestep_modifications |-> FALSE]
    /\ ri_whfast = [safe_mode |-> 1, is_synchronized |-> 1,
                    recalculate_jacobi_this_timestep |-> 0]
    /\ build \in Builds
    /\ tmax = 0 /\ maxR = 0 /\ minD = 0
    /\ dt_last_done = 0 /\ last_step = 0 /\ ret_value = 0 /\ dtsign = 1
    /\ result = NoResult
    /\ phases = << >>
    /\ entry = [t |-> 0, dt |-> 0, N |-> 0, exit_simulation |-> 0]
    /\ steps = 0
    /\ config = [G |-> 1, softening |-> 0, boxsize |-> 0 - 1, boxsize_x |-> 0 - 1,
                 boxsize_y |-> 0 - 1, boxsize_z |-> 0 - 1, boxsize_max |-> 0 - 1,
                 root_nx |-> 1, root_ny |-> 1, root_nz |-> 1, root_n |-> 1,
                 Nmax |-> 0, N_active |-> 0 - 1, force_is_velocitydependent |-> 0,
                 finished |-> FALSE]
    /\ obs = NoObservations
    /\ mirror = NoMirror

----------------------------------------------------------------------------
(* The caller configures the state returned by rebound_init. *)

Configure ==
    /\ pc = "init"
    /\ \E d \in (0 - MaxDt) .. MaxDt, ps \in ParticleSetups, is \in IntegratorSetups,
          hk \in HookSets, ex \in {0, 1}, ef \in {0, 1} :
          /\ dt' = d
          /\ particles' = ps.parts
          /\ N' = Len(ps.parts)
          /\ N_megno' = ps.megno
          /\ integrator' = is.integrator
          /\ ri_whfast' = [ri_whfast EXCEPT !.safe_mode = is.safe_mode]
          /\ hooks' = hk
          /\ exit_simulation' = ex
          /\ exact_finish_time' = ef
          /\ config' = [config EXCEPT !.Nmax = Len(ps.parts)]
    /\ pc' = "ready"
    /\ UNCHANGED << t, build, locals, result, phases, entry, steps, obs, mirror >>

----------------------------------------------------------------------------
(* Integrator backend, by its call contract *)

\* integrator_part1: the first half-step; a WHFast run outside safe mode
\* leaves the state unsynchronized.
integrator_part1(w, integ) ==
    IF integ = "WHFAST" /\ w.safe_mode = 0
    THEN [w EXCEPT !.is_synchronized = 0]
    ELSE w

\* integrator_part2: completes the step; WHFast synchronizes at the end of
\* the step only in safe mode.
integrator_part2(w, integ) ==
    IF integ = "WHFAST"
    THEN [w EXCEPT !.is_synchronized = IF w.safe_mode = 1 THEN 1 ELSE 0]
    ELSE w

\* integrator_synchronize
integrator_synchronize(w) == [w EXCEPT !.is_synchronized = 1]

\* The drift of one particle over a step of size h (no forces act in the model).
Drift(p, h) == [p EXCEPT !.x = @ + p.vx * h]

DriftAll(parts, h) == [i \in 1 .. Len(parts) |-> Drift(parts[i], h)]

\* collisions_resolve may remove a particle: the sequence without entry i.
RemoveAt(parts, i) ==
    [j \in 1 .. (Len(parts) - 1) |-> IF j < i THEN parts[j] ELSE parts[j + 1]]

----------------------------------------------------------------------------
(* rebound_step *)

\* Mutant of ForcePhases: the additional_forces hook runs before gravity.
ForcePhases_HookFirst(b, megno, hk) ==
    (IF b.TREE THEN << "tree_update" >> ELSE << >>)
    \o (IF b.MPI THEN << "communication_mpi_distribute_particles" >> ELSE << >>)
    \o (IF b.GRAVITY_TREE THEN << "tree_update_gravity_data" >> ELSE << >>)
    \o (IF b.GRAVITY_TREE /\ b.MPI
        THEN << "tree_prepare_essential_tree_for_gravity",
                "communication_mpi_distribute_essential_tree_for_gravity" >>
        ELSE << >>)
    \o (IF hk.additional_forces THEN << "additional_forces" >> ELSE << >>)
    \o << "gravity_calculate_acceleration" >>
    \o (IF megno # 0 THEN << "gravity_calculate_variational_acceleration" >> ELSE << >>)

\* Lines 72-105: the calls between the first boundary check and part2.
ForcePhases(b, megno, hk) ==
    (IF b.TREE THEN << "tree_update" >> ELSE << >>)
    \o (IF b.MPI THEN << "communication_mpi_distribute_particles" >> ELSE << >>)
    \o (IF b.GRAVITY_TREE THEN << "tree_update_gravity_data" >> ELSE << >>)
    \o (IF b.GRAVITY_TREE /\ b.MPI
        THEN << "tree_prepare_essential_tree_for_gravity",
                "communication_mpi_distribute_essential_tree_for_gravity" >>
        ELSE << >>)
    \o << "gravity_calculate_acceleration" >>
    \o (IF megno # 0 THEN << "gravity_calculate_variational_acceleration" >> ELSE << >>)
    \o (IF hk.additional_forces THEN << "additional_forces" >> ELSE << >>)

\* Lines 109-114: part2 and, if the hook is registered, synchronize and the hook.
Part2Phases(hk) ==
    << "integrator_part2" >>
    \o (IF hk.post_timestep_modifications
        THEN << "integrator_synchronize", "post_timestep_modifications" >>
        ELSE << >>)

\* Lines 110-111: the WHFast state the post_timestep_modifications hook is
\* called with.
BeforeModificationsHook(w) == integrator_synchronize(w)

\* Mutant of PostTimestepModifications: the Jacobi coordinates are not marked
\* for recalculation.
PostTimestepModifications_NoRecalculate(w, hk) ==
    IF hk.post_timestep_modifications THEN integrator_synchronize(w) ELSE w

\* Lines 110-114: the WHFast state after the post_timestep_modifications block.
PostTimestepModifications(w, hk) ==
    IF hk.post_timestep_modifications
    THEN [BeforeModificationsHook(w) EXCEPT !.recalculate_jacobi_this_timestep = 1]
    ELSE w

\* Mutant of SecondBoundaryPhases: the collision block has no boundary check.
SecondBoundaryPhases_Dropped(b) == << >>

\* Lines 118-122: the boundary check of the collision block.
SecondBoundaryPhases(b) ==
    IF b.COLLISIONS THEN << "boundaries_check" >> ELSE << >>

\* Lines 124-130: collision search and resolve.
CollisionPhases(b) ==
    IF b.COLLISIONS THEN << "collisions_search", "collisions_resolve" >> ELSE << >>

\* Lines 61-65
StepPart1 ==
    /\ pc = "part1"
    /\ ri_whfast' = integrator_part1(ri_whfast, integrator)
    /\ phases' = << "integrator_part1" >>
    /\ obs' = [obs EXCEPT !.mod_sync = 0 - 1]
    /\ pc' = "boundary1"
    /\ UNCHANGED << t, dt, N, N_megno, particles, exit_simulation, exact_finish_time,
                    integrator, hooks, build, locals, result, entry, steps, config,
                    mirror >>

\* Lines 67-70
StepBoundary1 ==
    /\ pc = "boundary1"
    /\ phases' = phases \o << "boundaries_check" >>
    /\ pc' = "forces"
    /\ UNCHANGED << rvars, build, locals, result, entry, steps, obs, mirror >>

\* Lines 72-105
StepForces ==
    /\ pc = "forces"
    /\ phases' = phases \o ForcePhases(build, N_megno, hooks)
    /\ pc' = "part2"
    /\ UNCHANGED << rvars, build, locals, result, entry, steps, obs, mirror >>

\* Lines 107-115
StepPart2 ==
    /\ pc = "part2"
    /\ t' = t + dt
    /\ particles' = DriftAll(particles, dt)
    /\ ri_whfast' = PostTimestepModifications(integrator_part2(ri_whfast, integrator), hooks)
    /\ phases' = phases \o Part2Phases(hooks)
    /\ pc' = IF SecondBoundaryPhases(build) # << >> THEN "boundary2"
             ELSE IF CollisionPhases(build) # << >> THEN "collisions"
             ELSE "after_step"
    /\ obs' = [obs EXCEPT !.mod_sync =
                  IF hooks.post_timestep_modifications
                  THEN BeforeModificationsHook(
                           integrator_part2(ri_whfast, integrator)).is_synchronized
                  ELSE 0 - 1]
    /\ mirror' = [mirror EXCEPT !.t = @ + mirror.dt,
                                !.particles = DriftAll(@, mirror.dt)]
    /\ UNCHANGED << dt, N, N_megno, exit_simulation, exact_finish_time, integrator,
                    hooks, build, locals, result, entry, steps, config >>

\* Lines 118-122
StepBoundary2 ==
    /\ pc = "boundary2"
    /\ phases' = phases \o SecondBoundaryPhases(build)
    /\ pc' = IF CollisionPhases(build) # << >> THEN "collisions" ELSE "after_step"
    /\ UNCHANGED << rvars, build, locals, result, entry, steps, obs, mirror >>

\* Lines 124-130: collisions_resolve removes at most one particle (i = 0: none).
StepCollisions ==
    /\ pc = "collisions"
    /\ phases' = phases \o CollisionPhases(build)
    /\ \E i \in 0 .. N :
          IF i = 0
          THEN UNCHANGED << N, N_megno, particles, mirror >>
          ELSE /\ particles' = RemoveAt(particles, i)
               /\ mirror' = [mirror EXCEPT !.particles = RemoveAt(@, i)]
               /\ N' = N - 1
               /\ N_megno' = IF i > N - N_megno THEN N_megno - 1 ELSE N_megno
    /\ pc' = "after_step"
    /\ UNCHANGED << t, dt, exit_simulation, exact_finish_time, integrator, hooks,
                    ri_whfast, build, locals, result, entry, steps, config, obs >>

----------------------------------------------------------------------------
(* rebound_integrate *)

\* Line 228: copysign(1., r->dt)
copysign1(x) == IF x < 0 THEN 0 - 1 ELSE 1

\* copysign(1., -x): negation flips the sign bit, also that of zero.
copysign1_negated(x) == 0 - copysign1(x)

\* Mutant of TruncationCondition: tests the current time instead of the time
\* after the next step.
TruncationCondition_NoLookahead(t_, dt_, sgn, tmax_, exact) ==
    t_ * sgn >= tmax_ * sgn /\ exact = 1

\* Mutant of TruncationCondition: the comparison is not scaled by the direction.
TruncationCondition_Forward(t_, dt_, sgn, tmax_, exact) ==
    t_ + dt_ >= tmax_ /\ exact = 1

\* Lines 230 and 245: the next step would reach or pass tmax and
\* exact_finish_time is set.
TruncationCondition(t_, dt_, sgn, tmax_, exact) ==
    (t_ + dt_) * sgn >= tmax_ * sgn /\ exact = 1

\* Mutant of LoopCondition: the result code is not part of the loop test.
LoopCondition_IgnoresSignal(t_, sgn, tmax_, ls, rv, ex) ==
    t_ * sgn < tmax_ * sgn /\ ls < 2 /\ ex = 0

\* Mutant of LoopCondition: the loop stops at the first final-step marking.
LoopCondition_OneFinalStep(t_, sgn, tmax_, ls, rv, ex) ==
    t_ * sgn < tmax_ * sgn /\ ls < 1 /\ rv = 0 /\ ex = 0

\* Mutant of LoopCondition: r->exit_simulation is not part of the loop test.
LoopCondition_IgnoresExit(t_, sgn, tmax_, ls, rv, ex) ==
    t_ * sgn < tmax_ * sgn /\ ls < 2 /\ rv = 0

\* Mutant of LoopCondition: the loop still runs when t equals tmax.
LoopCondition_Inclusive(t_, sgn, tmax_, ls, rv, ex) ==
    t_ * sgn <= tmax_ * sgn /\ ls < 2 /\ rv = 0 /\ ex = 0

\* Mutant of LoopCondition: the time is not part of the loop test.
LoopCondition_NoTimeTest(t_, sgn, tmax_, ls, rv, ex) ==
    ls < 2 /\ rv = 0 /\ ex = 0

\* Line 234: the condition of the while loop.
LoopCondition(t_, sgn, tmax_, ls, rv, ex) ==
    t_ * sgn < tmax_ * sgn /\ ls < 2 /\ rv = 0 /\ ex = 0

\* Mutant of NoParticles: an empty particle set passes the check.
NoParticles_Negative(n) == n < 0

\* Line 235
NoParticles(n) == n <= 0

\* Line 260: squared distance from the origin.
Radius2(p) == p.x * p.x + p.y * p.y + p.z * p.z

\* Lines 277-280: squared separation of two particles.
Separation2(p, q) ==
    (p.x - q.x) * (p.x - q.x) + (p.y - q.y) * (p.y - q.y) + (p.z - q.z) * (p.z - q.z)

\* Mutant of EscapeCheck: a particle at distance maxR counts as escaped.
EscapeCheck_Inclusive(rv, parts, n, maxR_) ==
    IF maxR_ # 0 /\ \E i \in 1 .. n :
           parts[i].x * parts[i].x + parts[i].y * parts[i].y + parts[i].z * parts[i].z
           >= maxR_ * maxR_
    THEN 2
    ELSE rv

\* Lines 253-267: ret_value after the escape check; n is r->N - r->N_megno.
EscapeCheck(rv, parts, n, maxR_) ==
    IF maxR_ # 0 /\ \E i \in 1 .. n : Radius2(parts[i]) > maxR_ * maxR_
    THEN 2
    ELSE rv

\* Mutant of EncounterCheck: a pair at distance minD counts as an encounter.
EncounterCheck_Inclusive(rv, parts, n, minD_) ==
    IF minD_ # 0 /\ \E i \in 1 .. n : \E j \in 1 .. (i - 1) :
                        (parts[i].x - parts[j].x) * (parts[i].x - parts[j].x)
                        + (parts[i].y - parts[j].y) * (parts[i].y - parts[j].y)
                        + (parts[i].z - parts[j].z) * (parts[i].z - parts[j].z)
                        <= minD_ * minD_
    THEN 3
    ELSE rv

\* Mutant of EncounterCheck: an escape already recorded is kept.
EncounterCheck_KeepsEscape(rv, parts, n, minD_) ==
    IF rv = 0 /\ minD_ # 0 /\ \E i \in 1 .. n : \E j \in 1 .. (i - 1) :
                        (parts[i].x - parts[j].x) * (parts[i].x - parts[j].x)
                        + (parts[i].y - parts[j].y) * (parts[i].y - parts[j].y)
                        + (parts[i].z - parts[j].z) * (parts[i].z - parts[j].z)
                        < minD_ * minD_
    THEN 3
    ELSE rv

\* Lines 268-289: ret_value after the close-encounter check.
EncounterCheck(rv, parts, n, minD_) ==
    IF minD_ # 0 /\ \E i \in 1 .. n : \E j \in 1 .. (i - 1) :
                        Separation2(parts[i], parts[j]) < minD_ * minD_
    THEN 3
    ELSE rv

\* A registered post_timestep hook may request the exit (lines 229 and 252).
PostTimestepOutcomes(hk, ex) == IF hk.post_timestep THEN {ex, 1} ELSE {ex}

\* Mutant of HookCalls: the hook is called without the NULL test.
HookCalls_Unconditional(hk, n) == n + 1

\* Lines 229 and 252: if (r->post_timestep){ r->post_timestep(r); } as the
\* number of calls made, n being the number made before.
HookCalls(hk, n) == IF hk.post_timestep THEN n + 1 ELSE n

\* Lines 225-233 on the mirrored problem; truncated is the branch this run took.
MirrorEntry(mt, mdt, mtm, msgn, truncated) ==
    LET mtrunc == TruncationCondition(mt, mdt, msgn, mtm, exact_finish_time)
    IN  [t |-> mt,
         dt |-> IF mtrunc THEN mtm - mt ELSE mdt,
         tmax |-> mtm,
         dtsign |-> msgn,
         dt_last_done |-> mdt,
         last_step |-> IF mtrunc THEN 1 ELSE 0,
         ret_value |-> 0,
         particles |-> particles,
         result |-> NoResult,
         agree |-> (mtrunc <=> truncated),
         alike |-> TRUE]

\* Line 234 on the mirrored problem.
MirrorLoopCondition ==
    LoopCondition(mirror.t, mirror.dtsign, mirror.tmax, mirror.last_step,
                  mirror.ret_value, exit_simulation)

\* Lines 245-251 on the mirrored problem; truncated is the branch this run took.
MirrorAfterStep(truncated) ==
    LET mtrunc == TruncationCondition(mirror.t, mirror.dt, mirror.dtsign, mirror.tmax,
                                      exact_finish_time)
    IN  IF mtrunc
        THEN [mirror EXCEPT !.dt = mirror.tmax - mirror.t,
                            !.last_step = @ + 1,
                            !.agree = @ /\ truncated]
        ELSE [mirror EXCEPT !.dt_last_done = mirror.dt,
                            !.agree = @ /\ ~truncated]

\* Lines 221-233
IntegrateEntry ==
    /\ pc = "ready"
    /\ \E tm \in (0 - MaxT) .. MaxT, mr \in Thresholds, md \in Thresholds :
          /\ tmax' = tm
          /\ maxR' = mr
          /\ minD' = md
          /\ IF TruncationCondition(t, dt, copysign1(dt), tm, exact_finish_time)
             THEN dt' = tm - t /\ last_step' = 1
             ELSE dt' = dt /\ last_step' = 0
          /\ mirror' = MirrorEntry(0 - t, 0 - dt, 0 - tm, copysign1_negated(dt),
                                   TruncationCondition(t, dt, copysign1(dt), tm,
                                                       exact_finish_time))
    /\ dt_last_done' = dt
    /\ ret_value' = 0
    /\ dtsign' = copysign1(dt)
    /\ exit_simulation' \in PostTimestepOutcomes(hooks, exit_simulation)
    /\ entry' = [t |-> t, dt |-> dt, N |-> N, exit_simulation |-> exit_simulation]
    /\ steps' = 0
    /\ obs' = [NoObservations EXCEPT
                  !.hook_calls = HookCalls(hooks, 0),
                  !.hook_dt = IF HookCalls(hooks, 0) > 0 THEN dt ELSE 0]
    /\ pc' = "loop"
    /\ UNCHANGED << t, N, N_megno, particles, exact_finish_time, integrator, hooks,
                    ri_whfast, build, result, phases, config >>

\* Lines 234-239: the loop test, the particle check and the call of rebound_step.
LoopIteration ==
    /\ pc = "loop"
    /\ IF ~LoopCondition(t, dtsign, tmax, last_step, ret_value, exit_simulation)
       THEN /\ pc' = "exit"
            /\ mirror' = [mirror EXCEPT !.agree = @ /\ ~MirrorLoopCondition]
            /\ UNCHANGED << result, steps, obs >>
       ELSE IF NoParticles(N)
       THEN /\ pc' = "returned"
            /\ result' = 1
            /\ mirror' = [mirror EXCEPT !.agree = @ /\ MirrorLoopCondition,
                                        !.result = 1]
            /\ UNCHANGED << steps, obs >>
       ELSE /\ steps < MaxSteps
            /\ mirror' = [mirror EXCEPT !.agree = @ /\ MirrorLoopCondition]
            /\ pc' = "part1"
            /\ steps' = steps + 1
            /\ obs' = [obs EXCEPT !.truncated_steps =
                          IF last_step > 0 THEN @ + 1 ELSE @]
            /\ UNCHANGED result
    /\ UNCHANGED << rvars, build, locals, phases, entry >>

\* Lines 245-252: the truncation re-check and the post_timestep hook.
AfterStep ==
    /\ pc = "after_step"
    /\ IF TruncationCondition(t, dt, dtsign, tmax, exact_finish_time)
       THEN /\ ri_whfast' = integrator_synchronize(ri_whfast)
            /\ dt' = tmax - t
            /\ last_step' = last_step + 1
            /\ UNCHANGED dt_last_done
       ELSE /\ dt_last_done' = dt
            /\ UNCHANGED << ri_whfast, dt, last_step >>
    /\ exit_simulation' \in PostTimestepOutcomes(hooks, exit_simulation)
    /\ mirror' = MirrorAfterStep(TruncationCondition(t, dt, dtsign, tmax,
                                                     exact_finish_time))
    /\ obs' = [obs EXCEPT
                  !.hook_calls = HookCalls(hooks, @),
                  !.hook_dt = IF HookCalls(hooks, obs.hook_calls) > obs.hook_calls
                              THEN dt' ELSE @]
    /\ pc' = "monitor"
    /\ UNCHANGED << t, N, N_megno, particles, exact_finish_time, integrator, hooks,
                    build, tmax, maxR, minD, ret_value, dtsign, result, phases, entry,
                    steps, config >>

\* some monitored (non-variational) particle lies beyond maxR
SomeEscaped ==
    \E i \in 1 .. (N - N_megno) :
        particles[i].x * particles[i].x + particles[i].y * particles[i].y
        + particles[i].z * particles[i].z > maxR * maxR

\* some pair of monitored particles is closer than minD
SomeEncounter ==
    \E i, j \in 1 .. (N - N_megno) :
        /\ i # j
        /\ (particles[i].x - particles[j].x) * (particles[i].x - particles[j].x)
           + (particles[i].y - particles[j].y) * (particles[i].y - particles[j].y)
           + (particles[i].z - particles[j].z) * (particles[i].z - particles[j].z)
           < minD * minD

\* Lines 253-290: the escape check, then the close-encounter check.
Monitor ==
    /\ pc = "monitor"
    /\ ret_value' = EncounterCheck(EscapeCheck(ret_value, particles, N - N_megno, maxR),
                                   particles, N - N_megno, minD)
    /\ obs' = [obs EXCEPT
                  !.monitors = @ + 1,
                  !.seen_escape = @ \/ SomeEscaped,
                  !.seen_encounter = @ \/ SomeEncounter]
    /\ LET mret == EncounterCheck(
                        EscapeCheck(mirror.ret_value, mirror.particles, N - N_megno, maxR),
                        mirror.particles, N - N_megno, minD)
       IN  mirror' = [mirror EXCEPT !.ret_value = mret,
                                    !.alike = @ /\ mret = ret_value']
    /\ pc' = "loop"
    /\ UNCHANGED << rvars, build, tmax, maxR, minD, dt_last_done, last_step, dtsign,
                    result, phases, entry, steps >>

\* Lines 291-296
IntegrateExit ==
    /\ pc = "exit"
    /\ ri_whfast' = integrator_synchronize(ri_whfast)
    /\ dt' = dt_last_done
    /\ result' = ret_value
    /\ mirror' = [mirror EXCEPT !.dt = mirror.dt_last_done, !.result = mirror.ret_value]
    /\ pc' = "returned"
    /\ UNCHANGED << t, N, N_megno, particles, exit_simulation, exact_finish_time,
                    integrator, hooks, build, locals, phases, entry, steps, config,
                    obs >>

----------------------------------------------------------------------------

Next ==
    \/ Configure
    \/ IntegrateEntry
    \/ LoopIteration
    \/ StepPart1
    \/ StepBoundary1
    \/ StepForces
    \/ StepPart2
    \/ StepBoundary2
    \/ StepCollisions
    \/ AfterStep
    \/ Monitor
    \/ IntegrateExit

Spec == Init /\ [][Next]_vars

----------------------------------------------------------------------------
(* Vocabulary of the properties *)

Returned == pc = "returned"

\* time has reached tmax, in the direction of the timestep
ReachedTmax == t * dtsign >= tmax * dtsign

Abs(x) == IF x < 0 THEN 0 - x ELSE x

\* the phases of rebound_step in the order the specification gives them
PhaseOrder ==
    << "integrator_part1", "boundaries_check", "tree_update",
       "communication_mpi_distribute_particles", "tree_update_gravity_data",
       "tree_prepare_essential_tree_for_gravity",
       "communication_mpi_distribute_essential_tree_for_gravity",
       "gravity_calculate_acceleration", "gravity_calculate_variational_acceleration",
       "additional_forces", "integrator_part2", "integrator_synchronize",
       "post_timestep_modifications", "boundaries_check", "collisions_search",
       "collisions_resolve" >>

\* s is obtained from o by leaving entries out (the order is kept)
RECURSIVE InOrder(_, _)
InOrder(s, o) ==
    IF s = << >> THEN TRUE
    ELSE IF o = << >> THEN FALSE
    ELSE IF Head(s) = Head(o) THEN InOrder(Tail(s), Tail(o))
    ELSE InOrder(s, Tail(o))

Occurs(name, s) == \E i \in 1 .. Len(s) : s[i] = name

Count(name, s) == Cardinality({i \in 1 .. Len(s) : s[i] = name})

\* the first position of name in s (0 if absent)
Position(name, s) ==
    IF Occurs(name, s) THEN CHOOSE i \in 1 .. Len(s) :
                                /\ s[i] = name
                                /\ \A j \in 1 .. (i - 1) : s[j] # name
    ELSE 0

StepDone == pc = "after_step"

----------------------------------------------------------------------------
(* Properties *)

\* C1: with exact_finish_time set, a nonzero entry timestep, particles present
\* throughout, no monitoring, no exit request, and tmax ahead of the entry time
\* by a distance that is not a multiple of the timestep, rebound_integrate
\* returns with t = tmax exactly.
C1_ExactFinishTime ==
    ( /\ Returned
      /\ exact_finish_time = 1
      /\ entry.dt # 0
      /\ N > 0
      /\ maxR = 0 /\ minD = 0
      /\ exit_simulation = 0
      /\ (tmax - entry.t) * dtsign > 0
      /\ Abs(tmax - entry.t) % Abs(entry.dt) # 0 )
    => t = tmax

\* a run that took a full step, then a truncated one
C1_Witness ==
    /\ Returned
    /\ exact_finish_time = 1 /\ entry.dt # 0 /\ N > 0
    /\ maxR = 0 /\ minD = 0 /\ exit_simulation = 0
    /\ (tmax - entry.t) * dtsign > 0
    /\ Abs(tmax - entry.t) % Abs(entry.dt) # 0
    /\ steps = 2 /\ last_step = 2 /\ t = tmax

\* C2: whenever rebound_integrate returns, by whichever exit, dt is the last
\* completed un-truncated step size; no step of the model alters dt, so that
\* is the dt of entry.
C2_TimestepRestored == Returned => dt = entry.dt

\* C3: whenever rebound_integrate returns, by whichever exit, the state is
\* synchronized.
C3_SynchronizedAtReturn == Returned => ri_whfast.is_synchronized = 1

\* C4 as stated: a run whose result code was set to 2 or 3 keeps stepping, so
\* it returns only with tmax reached or the exit requested.
C4_SignalKeepsLooping ==
    (Returned /\ result \in {2, 3}) => (ReachedTmax \/ exit_simulation = 1)

\* C4 amended: once the escape or close-encounter check has set the result code
\* to 2 or 3, no further rebound_step is started: the loop is left at its next
\* test and that code is returned.
C4_SignalStopsLoop ==
    ret_value # 0 =>
        /\ pc \in {"loop", "exit", "returned"}
        /\ Returned => result = ret_value

\* a run stopped by a signal short of tmax
C4_Witness ==
    /\ Returned /\ result = 2 /\ ~ReachedTmax /\ exit_simulation = 0 /\ steps = 1

\* C5 as stated: with maxR and minD set, an escape and a close encounter after
\* the same step give result code 2.
C5_EscapeWins ==
    (Returned /\ steps > 0 /\ maxR # 0 /\ minD # 0 /\ SomeEscaped /\ SomeEncounter)
    => result = 2

\* C5 amended: with maxR and minD set, an escape and a close encounter after the
\* same step give result code 3: the close-encounter check runs last and
\* overwrites the code.
C5_EncounterWins ==
    (Returned /\ steps > 0 /\ maxR # 0 /\ minD # 0 /\ SomeEscaped /\ SomeEncounter)
    => result = 3

C5_Witness ==
    /\ Returned /\ steps > 0 /\ maxR # 0 /\ minD # 0 /\ SomeEscaped /\ SomeEncounter
    /\ result = 3

\* C6: with collisions compiled in, the state is synchronized when the collision
\* search starts.
C6_SynchronizedBeforeCollisions ==
    pc = "collisions" => ri_whfast.is_synchronized = 1

\* C7 as stated: rebound_integrate on a state without particles returns 1, calls
\* no rebound_step and leaves t unchanged, for every tmax, exact_finish_time and
\* exit_simulation.
C7_NoParticlesAlwaysFatal ==
    (Returned /\ entry.N = 0) => (result = 1 /\ steps = 0 /\ t = entry.t)

\* C7 amended: rebound_integrate on a state without particles calls no
\* rebound_step and leaves t unchanged; it returns 1 if the loop is entered (t
\* short of tmax in the direction of dt and exit_simulation not set when the
\* loop is tested), and 0 otherwise.
C7_NoParticles ==
    (entry.N = 0 /\ pc \notin {"init", "ready"}) =>
        /\ pc \in {"loop", "exit", "returned"}
        /\ steps = 0
        /\ t = entry.t
        /\ Returned =>
              result = IF ~ReachedTmax /\ exit_simulation = 0 THEN 1 ELSE 0

\* the fatal return, taken with a truncated timestep
C7_Witness ==
    /\ Returned /\ entry.N = 0 /\ result = 1 /\ exact_finish_time = 1 /\ last_step = 1

\* C8 as stated: the result is in 0..3 and is 0 only if t has reached tmax.
C8_ZeroMeansReached ==
    Returned => (result \in 0 .. 3 /\ (result = 0 => ReachedTmax))

\* C8 amended: the result is in 0..3 and is 0 only if t has reached tmax or
\* exit_simulation is set: a run cancelled short of tmax returns 0.
C8_ZeroMeansReachedOrCancelled ==
    Returned =>
        /\ result \in 0 .. 3
        /\ result = 0 => (ReachedTmax \/ exit_simulation # 0)

\* a run cancelled by the hook after its first step, short of tmax
C8_Witness ==
    /\ Returned /\ result = 0 /\ ~ReachedTmax /\ exit_simulation = 1 /\ steps = 1

\* C9: the calls of one rebound_step are made in the order part1, boundary
\* check, tree / distribution calls, gravity, variational acceleration,
\* additional_forces, part2, synchronize, post_timestep_modifications, boundary
\* check, collision search, collision resolve; part1, the first boundary check,
\* gravity and part2 are always made, the variational acceleration only with
\* variational particles, the hooks only if registered, the collision calls only
\* with collisions compiled in.
C9_PhaseOrder ==
    /\ InOrder(phases, PhaseOrder)
    /\ pc = "part2" =>
          /\ phases[1] = "integrator_part1" /\ phases[2] = "boundaries_check"
          /\ phases[Len(phases)] \in {"gravity_calculate_acceleration",
                 "gravity_calculate_variational_acceleration", "additional_forces"}
          /\ Occurs("gravity_calculate_acceleration", phases)
          /\ Occurs("gravity_calculate_variational_acceleration", phases) <=> N_megno # 0
          /\ Occurs("additional_forces", phases) <=> hooks.additional_forces
          /\ Occurs("tree_update", phases) <=> build.TREE
          /\ Occurs("tree_update_gravity_data", phases) <=> build.GRAVITY_TREE
          /\ Occurs("communication_mpi_distribute_particles", phases) <=> build.MPI
    /\ StepDone =>
          /\ Count("integrator_part1", phases) = 1
          /\ Count("gravity_calculate_acceleration", phases) = 1
          /\ Count("integrator_part2", phases) = 1
          /\ Position("integrator_part1", phases)
                < Position("gravity_calculate_acceleration", phases)
          /\ Position("gravity_calculate_acceleration", phases)
                < Position("integrator_part2", phases)
          /\ Occurs("post_timestep_modifications", phases)
                <=> hooks.post_timestep_modifications
          /\ Occurs("integrator_synchronize", phases)
                <=> hooks.post_timestep_modifications
          /\ Occurs("collisions_search", phases) <=> build.COLLISIONS
          /\ Occurs("collisions_resolve", phases) <=> build.COLLISIONS
          /\ build.COLLISIONS =>
                Position("integrator_part2", phases)
                    < Position("collisions_search", phases)

\* a step that makes every call of the list
C9_Witness == StepDone /\ phases = PhaseOrder

\* C10 as stated: every rebound_step makes the boundary check exactly twice,
\* with or without collisions.
C10_TwoBoundaryChecks == StepDone => Count("boundaries_check", phases) = 2

\* C10 amended: every rebound_step makes the boundary check right after part1;
\* the second boundary check, after part2, is made only with collisions compiled
\* in, so a build without collisions makes exactly one boundary check per step.
C10_BoundaryChecks ==
    StepDone =>
        /\ phases[2] = "boundaries_check"
        /\ Count("boundaries_check", phases) = IF build.COLLISIONS THEN 2 ELSE 1
        /\ build.COLLISIONS =>
              \E i \in 1 .. Len(phases) :
                  /\ phases[i] = "boundaries_check"
                  /\ Position("integrator_part2", phases) < i
                  /\ i < Position("collisions_search", phases)

\* a step of a build without collisions
C10_Witness ==
    StepDone /\ ~build.COLLISIONS /\ Count("boundaries_check", phases) = 1

\* rebound_integrate has been entered
Entered == pc \notin {"init", "ready"}

ReachedAfter(k) == (entry.t + k * entry.dt) * dtsign >= tmax * dtsign

\* the least k >= 0 with ReachedAfter(k), for a nonzero entry timestep
LeastSteps ==
    CHOOSE k \in 0 .. (Abs(tmax - entry.t) + 1) :
        ReachedAfter(k) /\ \A j \in 0 .. (k - 1) : ~ReachedAfter(j)

\* the runs C12 is about
C12_Case ==
    /\ Returned
    /\ exact_finish_time = 0
    /\ entry.dt # 0
    /\ N > 0
    /\ maxR = 0 /\ minD = 0
    /\ exit_simulation = 0

\* C12 as stated: without exact_finish_time, monitoring and cancellation, the
\* run makes exactly K steps, K the least k >= 0 with t0 + k * h at or past
\* tmax, ends with t = t0 + K * h, and is past tmax by less than |h|.
C12_TimeAdvancement ==
    C12_Case =>
        /\ steps = LeastSteps
        /\ t = entry.t + LeastSteps * entry.dt
        /\ (t - tmax) * dtsign < Abs(entry.dt)

\* C12 amended: the same, but the run is past tmax by less than |h| only if it
\* made a step (K >= 1); with tmax at or behind the entry time K = 0, t is
\* unchanged and may lie any distance past tmax.
C12_TimeAdvancementFromBehind ==
    C12_Case =>
        /\ steps = LeastSteps
        /\ t = entry.t + LeastSteps * entry.dt
        /\ LeastSteps > 0 => (t - tmax) * dtsign < Abs(entry.dt)
        /\ LeastSteps = 0 => t = entry.t

\* a run of two steps that ends one unit past tmax
C12_Witness ==
    C12_Case /\ steps = 2 /\ LeastSteps = 2 /\ (t - tmax) * dtsign = 1

\* the mirrored run is the sign mirror of this one: same branches so far, t and
\* dt negated, same final-step marker and result code
Mirrored ==
    /\ mirror.agree
    /\ mirror.t = 0 - t
    /\ mirror.dt = 0 - dt
    /\ mirror.last_step = last_step
    /\ mirror.ret_value = ret_value
    /\ mirror.result = result

\* C13 as stated: the call on the sign-mirrored problem makes the same steps,
\* truncates at the same iterations, returns the same code and has t and dt
\* negated at every iteration and at return.
C13_DirectionInvariance == Entered => Mirrored

\* C13 amended: the same as long as the escape and close-encounter checks give
\* the same code in both runs (they read the particle positions, which a step
\* with negated dt moves the other way); in particular with monitoring off a
\* negative dt with tmax behind the entry time reaches tmax.
C13_DirectionInvarianceOfStepping ==
    /\ (Entered /\ mirror.alike) => Mirrored
    /\ (Entered /\ maxR = 0 /\ minD = 0) => Mirrored
    /\ (Returned /\ entry.dt < 0 /\ tmax < entry.t /\ N > 0 /\ exit_simulation = 0
            /\ maxR = 0 /\ minD = 0 /\ exact_finish_time = 1)
          => t = tmax

\* a backward run with a truncated last step, mirrored by the forward run
C13_Witness ==
    /\ Returned /\ Mirrored /\ entry.dt < 0 /\ tmax < entry.t /\ steps = 2
    /\ last_step = 2 /\ t = tmax /\ mirror.t = 0 - tmax /\ mirror.tmax = 0 - tmax

\* C14: with maxR set and minD = 0 the result is 2 exactly if, after some
\* executed step, a particle of the prefix N - N_megno was farther than maxR
\* from the origin (strictly); with maxR = 0 the result is never 2.
C14_EscapeDetection ==
    /\ (Entered /\ maxR # 0 /\ minD = 0 /\ pc \in {"loop", "exit", "returned"}) =>
          (ret_value = 2 <=> obs.seen_escape)
    /\ (Returned /\ maxR # 0 /\ minD = 0) => (result = 2 <=> obs.seen_escape)
    /\ (Returned /\ maxR = 0) => result # 2

\* a particle that is beyond maxR only after the second step
C14_Witness ==
    /\ Returned /\ maxR # 0 /\ minD = 0 /\ result = 2 /\ steps = 2 /\ obs.seen_escape
    /\ obs.monitors = 2

\* C15: with minD set and maxR = 0 the result is 3 exactly if, after some
\* executed step, two distinct particles of the prefix N - N_megno were closer
\* than minD (strictly); a run that reaches tmax without that returns 0.
C15_EncounterDetection ==
    /\ (Entered /\ minD # 0 /\ maxR = 0 /\ pc \in {"loop", "exit", "returned"}) =>
          (ret_value = 3 <=> obs.seen_encounter)
    /\ (Returned /\ minD # 0 /\ maxR = 0) => (result = 3 <=> obs.seen_encounter)
    /\ (Returned /\ minD # 0 /\ maxR = 0 /\ ~obs.seen_encounter /\ ReachedTmax) =>
          result = 0

\* a moving particle that comes closer than minD to another one in the first step
C15_Witness ==
    /\ Returned /\ minD # 0 /\ maxR = 0 /\ result = 3 /\ steps = 1
    /\ \E i \in 1 .. N : particles[i].vx # 0

Sign(x) == IF x < 0 THEN 0 - 1 ELSE IF x > 0 THEN 1 ELSE 0

\* C16 as stated: from entry to return the sign of dt is its sign at entry.
C16_SignFixed == Entered => Sign(dt) = Sign(entry.dt)

\* C16 amended: at every rebound_step call and at return the sign of dt is its
\* sign at entry; the truncation dt = tmax - t does give a zero dt (once the
\* truncated step has landed on tmax) or one of the opposite sign (t already
\* past tmax at entry with exact_finish_time), but only with tmax reached, so
\* that no step runs with it, and line 292 restores dt.
C16_SignFixedWhileStepping ==
    /\ pc \in {"part1", "boundary1", "forces", "part2", "boundary2", "collisions",
               "after_step", "returned"} => Sign(dt) = Sign(entry.dt)
    /\ (Entered /\ Sign(dt) # Sign(entry.dt)) =>
          /\ pc \in {"monitor", "loop", "exit"}
          /\ ReachedTmax
          /\ exact_finish_time = 1
          /\ last_step >= 1

\* dt of the opposite sign after the pre-loop truncation
C16_Witness ==
    /\ pc = "loop" /\ steps = 0 /\ entry.dt > 0 /\ dt < 0 /\ last_step = 1

\* C17: the state returned by rebound_init has t = 0, G = 1, softening = 0,
\* dt = 0.001 (1 in the time unit of the model), all box sizes -1, one root box
\* per axis, N = 0, Nmax = 0, N_active = -1, N_megno = 0, exit_simulation and
\* exact_finish_time 0, integrator IAS15, the four hooks unset and the WHFast
\* state safe_mode = 1, is_synchronized = 1, recalculate flag 0; so N <= Nmax
\* and the root box counts are >= 1.
C17_InitDefaults ==
    pc = "init" =>
        /\ t = 0 /\ dt = 1
        /\ config.G = 1 /\ config.softening = 0
        /\ config.boxsize = 0 - 1 /\ config.boxsize_x = 0 - 1
        /\ config.boxsize_y = 0 - 1 /\ config.boxsize_z = 0 - 1
        /\ config.boxsize_max = 0 - 1
        /\ config.root_nx = 1 /\ config.root_ny = 1 /\ config.root_nz = 1
        /\ config.root_n = 1
        /\ N = 0 /\ particles = << >> /\ config.Nmax = 0
        /\ config.N_active = 0 - 1
        /\ N_megno = 0
        /\ exit_simulation = 0 /\ exact_finish_time = 0
        /\ integrator = "IAS15"
        /\ ~hooks.additional_forces /\ ~hooks.post_timestep
        /\ ~hooks.post_timestep_modifications /\ ~config.finished
        /\ ri_whfast.safe_mode = 1 /\ ri_whfast.is_synchronized = 1
        /\ ri_whfast.recalculate_jacobi_this_timestep = 0
        /\ N <= config.Nmax
        /\ config.root_n >= 1
        /\ config.root_n = config.root_nx * config.root_ny * config.root_nz

\* the state rebound_init returns, before the caller touches it
C17_Witness ==
    /\ pc = "init" /\ result = NoResult /\ N = 0 /\ config.N_active < 0
    /\ integrator = "IAS15" /\ ri_whfast.is_synchronized = 1 /\ dt > 0

\* C18: with the post_timestep_modifications hook registered, part2 is followed
\* by integrator_synchronize, then the hook (called in a synchronized state),
\* then the recalculate flag is set, all before the second boundary check;
\* without the hook there is no synchronize and no hook call in the step and
\* the flag keeps its value.
C18_ModificationsHookProtocol ==
    /\ (pc \in {"boundary2", "collisions", "after_step"}
            /\ hooks.post_timestep_modifications) =>
          /\ Count("integrator_synchronize", phases) = 1
          /\ Count("post_timestep_modifications", phases) = 1
          /\ Position("integrator_synchronize", phases)
                = Position("integrator_part2", phases) + 1
          /\ Position("post_timestep_modifications", phases)
                = Position("integrator_synchronize", phases) + 1
          /\ obs.mod_sync = 1
          /\ ri_whfast.recalculate_jacobi_this_timestep = 1
          /\ Len(phases) > Position("post_timestep_modifications", phases) =>
                /\ build.COLLISIONS
                /\ phases[Position("post_timestep_modifications", phases) + 1]
                      = "boundaries_check"
          /\ pc = "boundary2" =>
                phases[Len(phases)] = "post_timestep_modifications"
    /\ ~hooks.post_timestep_modifications =>
          /\ ~Occurs("integrator_synchronize", phases)
          /\ ~Occurs("post_timestep_modifications", phases)
          /\ obs.mod_sync = 0 - 1
          /\ ri_whfast.recalculate_jacobi_this_timestep = 0
          /\ (pc \in {"boundary2", "collisions", "after_step"}
                  /\ integrator = "WHFAST" /\ ri_whfast.safe_mode = 0) =>
                ri_whfast.is_synchronized = 0

\* WHFast without safe mode, synchronized for the hook, before the second
\* boundary check
C18_Witness ==
    /\ pc = "boundary2" /\ hooks.post_timestep_modifications
    /\ integrator = "WHFAST" /\ ri_whfast.safe_mode = 0
    /\ obs.mod_sync = 1 /\ ri_whfast.is_synchronized = 1
    /\ ri_whfast.recalculate_jacobi_this_timestep = 1

\* C19: a registered post_timestep hook is called once before any step, with
\* the timestep not yet truncated, and once after each completed step, after
\* the truncation re-check and before the monitoring checks of that iteration:
\* K steps make K + 1 calls unless the fatal exit is taken; an unregistered
\* hook is never called.
C19_PostTimestepCallPoints ==
    /\ (Entered /\ hooks.post_timestep) =>
          /\ (pc = "loop" /\ steps = 0) =>
                obs.hook_calls = 1 /\ obs.hook_dt = entry.dt
          /\ pc \in {"part1", "boundary1", "forces", "part2", "boundary2",
                     "collisions", "after_step"} => obs.hook_calls = steps
          /\ pc = "monitor" =>
                /\ obs.hook_calls = steps + 1
                /\ obs.hook_dt = dt
                /\ obs.monitors = steps - 1
          /\ pc \in {"loop", "exit"} =>
                obs.hook_calls = steps + 1 /\ obs.monitors = steps
          /\ (Returned /\ result # 1) => obs.hook_calls = steps + 1
    /\ (Entered /\ ~hooks.post_timestep) => obs.hook_calls = 0

\* two steps, three calls
C19_Witness ==
    /\ Returned /\ hooks.post_timestep /\ result = 0 /\ steps = 2
    /\ obs.hook_calls = 3

\* the least integer not below a / b, for a >= 0 and b > 0
CeilDiv(a, b) == (a + b - 1) \div b

\* time had reached tmax when rebound_integrate was entered
ReachedAtEntry == entry.t * dtsign >= tmax * dtsign

\* C20: with a nonzero timestep at entry rebound_integrate makes at most
\* ceil(|tmax - t0| / |dt|) calls of rebound_step, whatever exact_finish_time,
\* maxR, minD and exit_simulation are, at most one of them with a truncated
\* timestep, and last_step never exceeds 2; every loop test that asks for a
\* step is followed by one, so the run returns. If t had reached tmax at entry
\* there is no step and no monitoring check, and 0 is returned with t and dt
\* unchanged.
C20_BoundedStepping ==
    /\ (Entered /\ entry.dt # 0) =>
          /\ steps <= CeilDiv(Abs(tmax - entry.t), Abs(entry.dt))
          /\ obs.truncated_steps <= 1
          /\ last_step <= 2
          /\ pc = "loop" => steps < MaxSteps
          /\ pc \in {"part1", "boundary1", "forces", "part2"} =>
                Abs(tmax - t) <= Abs(tmax - entry.t) - (steps - 1) * Abs(entry.dt)
    /\ (Entered /\ ReachedAtEntry) =>
          /\ steps = 0
          /\ obs.monitors = 0
          /\ t = entry.t
          /\ pc \in {"loop", "exit", "returned"}
          /\ Returned => (result = 0 /\ dt = entry.dt)

\* the greatest number of steps, the last one truncated
C20_Witness ==
    /\ Returned /\ entry.dt # 0 /\ Abs(entry.dt) > 1
    /\ steps = CeilDiv(Abs(tmax - entry.t), Abs(entry.dt)) /\ steps = 2
    /\ obs.truncated_steps = 1 /\ last_step = 2 /\ t = tmax

====
